---- MODULE Spec2Model ----
(***************************************************************************)
(* Model of dataplot/serial_logger.py: the capture session run by          *)
(* log_serial_data (open the serial device, write the CSV header, read,    *)
(* filter and persist lines until the duration elapses) and the part of    *)
(* main that consumes its result.                                          *)
(*                                                                         *)
(* Text is modelled character by character: a raw line is the sequence of  *)
(* bytes readline() returns, a decoded line a sequence of characters, and  *)
(* the output file the sequence of characters written to it.               *)
(***************************************************************************)
EXTENDS Integers, Sequences, FiniteSets, TLC

(* ---- bounds ---- *)
\* largest number of lines the device delivers in one session
MaxReads == 2
\* largest duration (in clock ticks) a session is started with
MaxDuration == 1

(* ---- program constants ---- *)
SKIP_WARMUP_LINES == TRUE

\* serial.Serial(port, BAUD_RATE, timeout=1): the longest readline() waits,
\* in clock ticks
READ_TIMEOUT == 1

HEADER == <<"t", "i", "m", "e", "_", "m", "s", ",", "s", "i", "t", "e", ",", "s", "e", "n", "s", "o", "r", ",", "v", "a", "l", "u", "e", ",", "u", "n", "i", "t", ",", "t", "e", "m", "p", "_", "C", ",", "h", "u", "m", "_", "p", "c", "t", ",", "p", "r", "e", "s", "s", "_", "h", "P", "a">>

\* the warmup substrings whose lines are printed as [SKIP]
WarmupMarkers ==
    { <<"W", "a", "r", "m", "i", "n", "g">>,
      <<"r", "e", "m", "a", "i", "n", "i", "n", "g">>,
      <<"C", "a", "l", "i", "b", "r", "a", "t">>,
      <<"c", "o", "m", "p", "l", "e", "t", "e">>,
      <<"R", "o", ":">> }

\* the duplicate-header marker
time_ms == <<"t", "i", "m", "e", "_", "m", "s">>

(* ---- text helpers ---- *)
NL == "\n"

Digits == {"0", "1", "2", "3", "4", "5", "6", "7", "8", "9"}

\* str.isdigit() on one character of the modelled alphabet
IsDigit(c) == c \in Digits

\* the characters str.strip() removes
Whitespace == {" ", "\t", "\n", "\r", "\f"}

\* `pat in text` for Python strings
Contains(pat, text) ==
    \E i \in 0..(Len(text) - Len(pat)) :
        \A k \in 1..Len(pat) : text[i + k] = pat[k]

RECURSIVE LStrip(_)
LStrip(s) ==
    IF s # <<>> /\ Head(s) \in Whitespace THEN LStrip(Tail(s)) ELSE s

RECURSIVE RStrip(_)
RStrip(s) ==
    IF s # <<>> /\ s[Len(s)] \in Whitespace
    THEN RStrip(SubSeq(s, 1, Len(s) - 1))
    ELSE s

\* mutant of Strip: every whitespace character is removed, not only the
\* leading and trailing ones
StripAllWhitespace(s) == SelectSeq(s, LAMBDA c : c \notin Whitespace)

\* str.strip()
Strip(s) == RStrip(LStrip(s))

(* ---- UTF-8 decoding ---- *)
\* Bytes below 0x80 are written as the character they encode; the bytes
\* 0xC2 0xB0 are the two-byte encoding of the degree sign; 0xFF never
\* occurs in UTF-8.
LeadBytes == {"xC2"}
ContBytes == {"xB0"}
InvalidBytes == {"xFF"}
TwoByteChar(lead, cont) == "deg"

RECURSIVE Decodable(_)
Decodable(raw) ==
    IF raw = <<>> THEN TRUE
    ELSE IF Head(raw) \in LeadBytes
         THEN /\ Len(raw) >= 2
              /\ raw[2] \in ContBytes
              /\ Decodable(Tail(Tail(raw)))
    ELSE IF Head(raw) \in ContBytes \cup InvalidBytes THEN FALSE
    ELSE Decodable(Tail(raw))

\* bytes.decode('utf-8') of a decodable byte sequence
RECURSIVE Decode(_)
Decode(raw) ==
    IF raw = <<>> THEN <<>>
    ELSE IF Head(raw) \in LeadBytes
         THEN <<TwoByteChar(raw[1], raw[2])>> \o Decode(Tail(Tail(raw)))
    ELSE <<Head(raw)>> \o Decode(Tail(raw))

(* ---- classification of a decoded, stripped line ---- *)
IsWarmup(text) == \E m \in WarmupMarkers : Contains(m, text)

IsDuplicateHeader(text) == Contains(time_ms, text)

IsData(text) == text # <<>> /\ IsDigit(text[1])

(* ---- the lines the device can send ---- *)
RawData == <<"1", "2", ",", "1", "\r", "\n">>
RawDigitNoise == <<"7", " ", "R", "o", ":", "3", "\r", "\n">>
RawDigitHeader == <<"3", ",", "t", "i", "m", "e", "_", "m", "s", "\n">>
RawPadded == <<"1", "2", ",", " ", "1", " ", "\r", "\n">>
RawEmpty == <<"\r", "\n">>
RawInfo == <<"xC2", "xB0", "C", " ", "o", "k", "\r", "\n">>
RawCorrupt == <<"1", "xFF", ",", "5", "\r", "\n">>

DeviceLines ==
    { RawData, RawDigitNoise, RawDigitHeader, RawPadded, RawEmpty, RawInfo,
      RawCorrupt }

ScnWarming == <<"W", "a", "r", "m", "i", "n", "g", " ", "u", "p", ".", ".", ".", "\r", "\n">>
ScnHeader == <<"t", "i", "m", "e", "_", "m", "s", ",", "s", "i", "t", "e", ",", "s", "e", "n", "s", "o", "r", ",", "v", "a", "l", "u", "e", ",", "u", "n", "i", "t", "\r", "\n">>
ScnData == <<"1", "0", "0", "0", ",", "1", ",", "M", "Q", "4", "_", "C", "H", "4", ",", "1", "2", ".", "5", ",", "p", "p", "m", "\r", "\n">>
ScnInfo == <<"n", "o", "t", "-", "a", "-", "n", "u", "m", "b", "e", "r", "\r", "\n">>

ScnRow == <<"1", "0", "0", "0", ",", "1", ",", "M", "Q", "4", "_", "C", "H", "4", ",", "1", "2", ".", "5", ",", "p", "p", "m">>

Scenario == <<ScnWarming, ScnHeader, ScnData, ScnInfo>>

Scripts == UNION { [1..n -> DeviceLines] : n \in 0..MaxReads }

(* ---- state ---- *)
VARIABLES
    pc,          \* position in main / log_serial_data
    duration,    \* the duration argument, in clock ticks
    now,         \* time.time() - start_time, in clock ticks
    device,      \* the lines the device has still to deliver
    received,    \* the raw lines readline() has returned so far
    ser,         \* the serial handle: "none", "open" or "closed"
    f_state,     \* the output file: "absent", "open" or "closed"
    f_buf,       \* characters written to f but not yet flushed
    f_disk,      \* characters of the output file on disk
    line,        \* the decoded, stripped line being processed
    line_count,  \* the accepted-line counter
    stdout,      \* the kinds of the messages printed so far
    success,     \* what log_serial_data returned: "none", "True", "False"
    plotted,     \* generate_plots has been invoked
    copied,      \* the session file has been copied to data.csv
    waited       \* clock ticks the readline() in progress has blocked for

vars == <<pc, duration, now, device, received, ser, f_state, f_buf, f_disk,
          line, line_count, stdout, success, plotted, copied, waited>>

\* positions inside the `with open(...)` block
WithPcs == {"while", "in_waiting", "readline", "filter", "check", "write",
            "flush", "count"}

\* positions of log_serial_data at which the device has been opened
SessionPcs == WithPcs \cup {"start", "complete"}

InitCommon ==
    /\ pc = "open"
    /\ now = 0
    /\ received = <<>>
    /\ ser = "none"
    /\ f_state = "absent"
    /\ f_buf = <<>>
    /\ f_disk = <<>>
    /\ line = <<>>
    /\ line_count = 0
    /\ stdout = <<>>
    /\ success = "none"
    /\ plotted = FALSE
    /\ copied = FALSE
    /\ waited = 0

Init ==
    /\ InitCommon
    /\ duration \in 0..MaxDuration
    /\ device \in Scripts

InitScenario ==
    /\ InitCommon
    /\ duration \in 0..MaxDuration
    /\ device = Scenario

(* ---- the output file ---- *)
\* leaving the `with` block closes f, which flushes its buffer
CloseFile ==
    /\ f_disk' = f_disk \o f_buf
    /\ f_buf' = <<>>
    /\ f_state' = "closed"

(* ---- log_serial_data ---- *)
\* ser = serial.Serial(port, BAUD_RATE, timeout=1)
OpenPort ==
    /\ pc = "open"
    /\ \/ /\ ser' = "open"
          /\ pc' = "start"
       \/ /\ pc' = "except"
          /\ UNCHANGED ser
    /\ UNCHANGED <<waited, duration, now, device, received, f_state, f_buf, f_disk,
                   line, line_count, stdout, success, plotted, copied>>

\* start_time, line_count = 0, open the file and write the header
StartSession ==
    /\ pc = "start"
    /\ now' = 0
    /\ line_count' = 0
    /\ f_state' = "open"
    /\ f_disk' = <<>>
    /\ f_buf' = HEADER \o <<NL>>
    /\ pc' = "while"
    /\ UNCHANGED <<waited, duration, device, received, ser, line, stdout, success,
                   plotted, copied>>

\* mutant of WhileGuard: the loop runs while elapsed <= duration
WhileGuardInclusive ==
    /\ pc = "while"
    /\ IF now <= duration
       THEN /\ pc' = "in_waiting"
            /\ UNCHANGED <<f_state, f_buf, f_disk>>
       ELSE /\ pc' = "complete"
            /\ CloseFile
    /\ UNCHANGED <<waited, duration, now, device, received, ser, line, line_count,
                   stdout, success, plotted, copied>>

\* while (time.time() - start_time) < duration
WhileGuard ==
    /\ pc = "while"
    /\ IF now < duration
       THEN /\ pc' = "in_waiting"
            /\ UNCHANGED <<f_state, f_buf, f_disk>>
       ELSE /\ pc' = "complete"
            /\ CloseFile
    /\ UNCHANGED <<waited, duration, now, device, received, ser, line, line_count,
                   stdout, success, plotted, copied>>

\* a serial.SerialException raised inside the `with` block
RaiseSerialException ==
    /\ CloseFile
    /\ pc' = "except"

\* if ser.in_waiting
InWaiting ==
    /\ pc = "in_waiting"
    /\ \/ /\ device # <<>>
          /\ pc' = "readline"
          /\ UNCHANGED <<f_state, f_buf, f_disk>>
       \/ /\ pc' = "while"
          /\ UNCHANGED <<f_state, f_buf, f_disk>>
       \/ RaiseSerialException
    /\ UNCHANGED <<waited, duration, now, device, received, ser, line, line_count,
                   stdout, success, plotted, copied>>

\* mutant of ReadLine: the UnicodeDecodeError is not caught in the loop and
\* ends the session
ReadLineAbortOnDecodeError ==
    /\ pc = "readline"
    /\ \/ /\ device # <<>>
          /\ device' = Tail(device)
          /\ received' = Append(received, Head(device))
          /\ IF Decodable(Head(device))
             THEN /\ line' = Strip(Decode(Head(device)))
                  /\ pc' = "filter"
                  /\ UNCHANGED <<f_state, f_buf, f_disk>>
             ELSE /\ pc' = "interrupted"
                  /\ CloseFile
                  /\ UNCHANGED line
       \/ /\ RaiseSerialException
          /\ UNCHANGED <<device, received, line>>
    /\ waited' = 0
    /\ UNCHANGED <<duration, now, ser, line_count, stdout, success, plotted,
                   copied>>

\* line = ser.readline().decode('utf-8').strip()
ReadLine ==
    /\ pc = "readline"
    /\ \/ /\ device # <<>>
          /\ device' = Tail(device)
          /\ received' = Append(received, Head(device))
          /\ IF Decodable(Head(device))
             THEN /\ line' = Strip(Decode(Head(device)))
                  /\ pc' = "filter"
             ELSE /\ pc' = "while"
                  /\ UNCHANGED line
          /\ UNCHANGED <<f_state, f_buf, f_disk>>
       \/ /\ RaiseSerialException
          /\ UNCHANGED <<device, received, line>>
    /\ waited' = 0
    /\ UNCHANGED <<duration, now, ser, line_count, stdout, success, plotted,
                   copied>>

\* mutant of FilterLine: a digit-led line bypasses the noise filter
FilterLineDigitFirst ==
    /\ pc = "filter"
    /\ IF IsData(line)
       THEN /\ pc' = "check"
            /\ UNCHANGED stdout
       ELSE IF SKIP_WARMUP_LINES /\ IsWarmup(line)
       THEN /\ stdout' = Append(stdout, "SKIP")
            /\ pc' = "while"
       ELSE IF SKIP_WARMUP_LINES /\ IsDuplicateHeader(line)
       THEN /\ pc' = "while"
            /\ UNCHANGED stdout
       ELSE /\ pc' = "check"
            /\ UNCHANGED stdout
    /\ UNCHANGED <<waited, duration, now, device, received, ser, f_state, f_buf,
                   f_disk, line, line_count, success, plotted, copied>>

\* mutant of FilterLine: the duplicate-header check is missing
FilterLineNoHeaderCheck ==
    /\ pc = "filter"
    /\ IF SKIP_WARMUP_LINES /\ IsWarmup(line)
       THEN /\ stdout' = Append(stdout, "SKIP")
            /\ pc' = "while"
       ELSE /\ pc' = "check"
            /\ UNCHANGED stdout
    /\ UNCHANGED <<waited, duration, now, device, received, ser, f_state, f_buf,
                   f_disk, line, line_count, success, plotted, copied>>

\* mutant of FilterLine: the duplicate-header test is merged into the warmup
\* test, so its lines are printed as [SKIP] too
FilterLineReportsHeader ==
    /\ pc = "filter"
    /\ IF SKIP_WARMUP_LINES /\ (IsWarmup(line) \/ IsDuplicateHeader(line))
       THEN /\ stdout' = Append(stdout, "SKIP")
            /\ pc' = "while"
       ELSE /\ pc' = "check"
            /\ UNCHANGED stdout
    /\ UNCHANGED <<waited, duration, now, device, received, ser, f_state, f_buf,
                   f_disk, line, line_count, success, plotted, copied>>

\* if SKIP_WARMUP_LINES: skip warmup messages and the duplicate header
FilterLine ==
    /\ pc = "filter"
    /\ IF SKIP_WARMUP_LINES /\ IsWarmup(line)
       THEN /\ stdout' = Append(stdout, "SKIP")
            /\ pc' = "while"
       ELSE IF SKIP_WARMUP_LINES /\ IsDuplicateHeader(line)
       THEN /\ pc' = "while"
            /\ UNCHANGED stdout
       ELSE /\ pc' = "check"
            /\ UNCHANGED stdout
    /\ UNCHANGED <<waited, duration, now, device, received, ser, f_state, f_buf,
                   f_disk, line, line_count, success, plotted, copied>>

\* mutant of CheckData: informational lines are counted as accepted
CheckDataCountsInfo ==
    /\ pc = "check"
    /\ IF IsData(line)
       THEN /\ pc' = "write"
            /\ UNCHANGED <<stdout, line_count>>
       ELSE /\ stdout' = Append(stdout, "INFO")
            /\ line_count' = line_count + 1
            /\ pc' = "while"
    /\ UNCHANGED <<waited, duration, now, device, received, ser, f_state, f_buf,
                   f_disk, line, success, plotted, copied>>

\* if line and line[0].isdigit(): ... else: print("[INFO] ...")
CheckData ==
    /\ pc = "check"
    /\ IF IsData(line)
       THEN /\ pc' = "write"
            /\ UNCHANGED stdout
       ELSE /\ stdout' = Append(stdout, "INFO")
            /\ pc' = "while"
    /\ UNCHANGED <<waited, duration, now, device, received, ser, f_state, f_buf,
                   f_disk, line, line_count, success, plotted, copied>>

\* mutant of WriteLine: a line equal to the last line written is dropped
WriteLineDedup ==
    /\ pc = "write"
    /\ f_buf' = IF Len(f_disk) > Len(line)
                   /\ SubSeq(f_disk, Len(f_disk) - Len(line), Len(f_disk))
                          = line \o <<NL>>
                THEN f_buf
                ELSE f_buf \o line \o <<NL>>
    /\ pc' = "flush"
    /\ UNCHANGED <<waited, duration, now, device, received, ser, f_state, f_disk,
                   line, line_count, stdout, success, plotted, copied>>

\* f.write(line + '\n')
WriteLine ==
    /\ pc = "write"
    /\ f_buf' = f_buf \o line \o <<NL>>
    /\ pc' = "flush"
    /\ UNCHANGED <<waited, duration, now, device, received, ser, f_state, f_disk,
                   line, line_count, stdout, success, plotted, copied>>

\* mutant of FlushFile: the flush is missing
FlushFileSkipped ==
    /\ pc = "flush"
    /\ pc' = "count"
    /\ UNCHANGED <<waited, duration, now, device, received, ser, f_state, f_buf,
                   f_disk, line, line_count, stdout, success, plotted, copied>>

\* f.flush()
FlushFile ==
    /\ pc = "flush"
    /\ f_disk' = f_disk \o f_buf
    /\ f_buf' = <<>>
    /\ pc' = "count"
    /\ UNCHANGED <<waited, duration, now, device, received, ser, f_state, line,
                   line_count, stdout, success, plotted, copied>>

\* line_count += 1 and the progress message
CountLine ==
    /\ pc = "count"
    /\ line_count' = line_count + 1
    /\ stdout' = Append(stdout, "DATA")
    /\ pc' = "while"
    /\ UNCHANGED <<waited, duration, now, device, received, ser, f_state, f_buf,
                   f_disk, line, success, plotted, copied>>

\* print("Logging complete! ..."); ser.close(); return line_count > 0
LoggingComplete ==
    /\ pc = "complete"
    /\ stdout' = Append(stdout, "COMPLETE")
    /\ ser' = "closed"
    /\ success' = IF line_count > 0 THEN "True" ELSE "False"
    /\ pc' = "main_if"
    /\ UNCHANGED <<waited, duration, now, device, received, f_state, f_buf, f_disk,
                   line, line_count, plotted, copied>>

\* except serial.SerialException: print the error; return False
HandleSerialException ==
    /\ pc = "except"
    /\ stdout' = Append(stdout, "ERROR")
    /\ success' = "False"
    /\ pc' = "main_if"
    /\ UNCHANGED <<waited, duration, now, device, received, ser, f_state, f_buf,
                   f_disk, line, line_count, plotted, copied>>

\* a KeyboardInterrupt delivered while log_serial_data runs with the device
\* open: no handler catches it, so only the `with` block's exit runs
KeyboardInterrupt ==
    /\ pc \in SessionPcs
    /\ IF pc \in WithPcs
       THEN CloseFile
       ELSE UNCHANGED <<f_state, f_buf, f_disk>>
    /\ pc' = "interrupted"
    /\ UNCHANGED <<waited, duration, now, device, received, ser, line, line_count,
                   stdout, success, plotted, copied>>

\* mutant of Tick: readline() blocks for up to twice the read timeout
TickSlowRead ==
    /\ \/ /\ pc = "while"
          /\ now < duration
          /\ UNCHANGED waited
       \/ /\ pc = "readline"
          /\ waited < READ_TIMEOUT + READ_TIMEOUT
          /\ waited' = waited + 1
    /\ now' = now + 1
    /\ UNCHANGED <<pc, duration, device, received, ser, f_state, f_buf,
                   f_disk, line, line_count, stdout, success, plotted, copied>>

\* The wall clock advances, one tick per read timeout, where the loop
\* spends its time: polling between two evaluations of the loop condition,
\* and inside readline(), which blocks for at most READ_TIMEOUT (the other
\* statements of an iteration take less than a tick).
Tick ==
    /\ \/ /\ pc = "while"
          /\ now < duration
          /\ UNCHANGED waited
       \/ /\ pc = "readline"
          /\ waited < READ_TIMEOUT
          /\ waited' = waited + 1
    /\ now' = now + 1
    /\ UNCHANGED <<pc, duration, device, received, ser, f_state, f_buf,
                   f_disk, line, line_count, stdout, success, plotted, copied>>

(* ---- main ---- *)
\* mutant of CheckSuccess: any returned value counts as success
CheckSuccessNotNone ==
    /\ pc = "main_if"
    /\ IF success # "none"
       THEN /\ pc' = "generate_plots"
            /\ UNCHANGED stdout
       ELSE /\ stdout' = Append(stdout, "NODATA")
            /\ pc' = "exit"
    /\ UNCHANGED <<waited, duration, now, device, received, ser, f_state, f_buf,
                   f_disk, line, line_count, success, plotted, copied>>

\* if success: ... else: print("No data logged.")
CheckSuccess ==
    /\ pc = "main_if"
    /\ IF success = "True"
       THEN /\ pc' = "generate_plots"
            /\ UNCHANGED stdout
       ELSE /\ stdout' = Append(stdout, "NODATA")
            /\ pc' = "exit"
    /\ UNCHANGED <<waited, duration, now, device, received, ser, f_state, f_buf,
                   f_disk, line, line_count, success, plotted, copied>>

\* generate_plots(csv_file, OUTPUT_DIR)
GeneratePlots ==
    /\ pc = "generate_plots"
    /\ plotted' = TRUE
    /\ pc' = "copy"
    /\ UNCHANGED <<waited, duration, now, device, received, ser, f_state, f_buf,
                   f_disk, line, line_count, stdout, success, copied>>

\* shutil.copy(csv_file, data_csv) and the COMPLETE banner
CopyData ==
    /\ pc = "copy"
    /\ copied' = TRUE
    /\ stdout' = Append(stdout, "DONE")
    /\ pc' = "exit"
    /\ UNCHANGED <<waited, duration, now, device, received, ser, f_state, f_buf,
                   f_disk, line, line_count, success, plotted>>

Next ==
    \/ OpenPort
    \/ StartSession
    \/ WhileGuard
    \/ InWaiting
    \/ ReadLine
    \/ FilterLine
    \/ CheckData
    \/ WriteLine
    \/ FlushFile
    \/ CountLine
    \/ LoggingComplete
    \/ HandleSerialException
    \/ KeyboardInterrupt
    \/ Tick
    \/ CheckSuccess
    \/ GeneratePlots
    \/ CopyData

Spec == Init /\ [][Next]_vars

SpecScenario == InitScenario /\ [][Next]_vars

\* the statements of log_serial_data and main: a running program takes its
\* next step
Step ==
    \/ OpenPort
    \/ StartSession
    \/ WhileGuard
    \/ InWaiting
    \/ ReadLine
    \/ FilterLine
    \/ CheckData
    \/ WriteLine
    \/ FlushFile
    \/ CountLine
    \/ LoggingComplete
    \/ HandleSerialException
    \/ CheckSuccess
    \/ GeneratePlots
    \/ CopyData

\* The program keeps running and the wall clock keeps advancing: the clock
\* is not stopped by the loop passing through positions where no time is
\* accounted, hence strong fairness for Tick.
SpecLive == Init /\ [][Next]_vars /\ WF_vars(Step) /\ SF_vars(Tick)

TypeOK ==
    /\ ser \in {"none", "open", "closed"}
    /\ f_state \in {"absent", "open", "closed"}
    /\ success \in {"none", "True", "False"}
    /\ line_count \in Nat
    /\ now \in 0..MaxDuration
    /\ waited \in 0..READ_TIMEOUT

(* ---- reading the output file back ---- *)
\* the lines of a text: one per '\n', plus an unterminated last line
RECURSIVE SplitFrom(_, _, _)
SplitFrom(chars, start, i) ==
    IF i > Len(chars)
    THEN (IF start > Len(chars) THEN <<>>
          ELSE <<SubSeq(chars, start, Len(chars))>>)
    ELSE IF chars[i] = NL
         THEN <<SubSeq(chars, start, i - 1)>> \o SplitFrom(chars, i + 1, i + 1)
    ELSE SplitFrom(chars, start, i + 1)

FileLines(chars) == SplitFrom(chars, 1, 1)

\* everything after the header line
DataRows(chars) ==
    LET ls == FileLines(chars) IN IF ls = <<>> THEN <<>> ELSE Tail(ls)

\* all that has been written to f, flushed or not
FileText == f_disk \o f_buf

Front(s) == SubSeq(s, 1, Len(s) - 1)

Last(s) == s[Len(s)]

Count(s, x) == Cardinality({i \in 1..Len(s) : s[i] = x})

Range(s) == {s[i] : i \in 1..Len(s)}

\* the text of a raw line as the loop sees it
TextOf(raw) == Strip(Decode(raw))

IsNoise(text) == IsWarmup(text) \/ IsDuplicateHeader(text)

\* the class of a raw line: "corrupt", "noise", "data" or "info"
Classify(raw) ==
    IF ~Decodable(raw) THEN "corrupt"
    ELSE LET text == TextOf(raw)
         IN  IF IsNoise(text) THEN "noise"
             ELSE IF IsData(text) THEN "data"
             ELSE "info"

\* the texts of the raw lines of class "data", in order
RECURSIVE ValidTexts(_)
ValidTexts(raws) ==
    IF raws = <<>> THEN <<>>
    ELSE IF Classify(Head(raws)) = "data"
         THEN <<TextOf(Head(raws))>> \o ValidTexts(Tail(raws))
    ELSE ValidTexts(Tail(raws))

NumOfClass(raws, c) ==
    Cardinality({i \in 1..Len(raws) : Classify(raws[i]) = c})

\* positions at which the line read last is still being processed
InFlightPcs == {"filter", "check", "write", "flush", "count"}

\* log_serial_data has returned to main
Returned == success # "none"

(* ---- C1 ---- *)
\* C1: a line that contains a noise substring (a warmup marker or the
\* duplicate-header marker) is never appended to the output file, even when
\* it starts with a digit: no line past the noise filter is noise, and no
\* data row of the file, flushed or not, contains a noise substring.
NoiseNeverPersisted ==
    /\ pc \in {"check", "write", "flush", "count"} => ~IsNoise(line)
    /\ LET rows == DataRows(FileText)
       IN  /\ \A i \in 1..Len(rows) : ~IsNoise(rows[i])
           /\ Len(rows) <= Len(received) - NumOfClass(received, "noise")

\* a digit-led noise line has been read and fully processed
DigitLedNoiseProcessed ==
    /\ pc = "while"
    /\ received # <<>>
    /\ Classify(Last(received)) = "noise"
    /\ IsDigit(Decode(Last(received))[1])
    /\ \E i \in 1..Len(received) : Classify(received[i]) = "data"

(* ---- C3 ---- *)
\* C3: once a session that opened the device has returned, line_count is
\* the number of lines of the output file minus one (the header).
CounterMatchesFile ==
    (Returned /\ ser # "none") =>
        line_count = Len(FileLines(f_disk)) - 1

\* a returned session that accepted a line and rejected another
MixedSessionReturned ==
    /\ Returned
    /\ ser # "none"
    /\ line_count >= 1
    /\ line_count < Len(received)

(* ---- C5 ---- *)
\* the raw lines whose processing has finished
Processed ==
    IF pc \in {"filter", "check", "write"} THEN Front(received) ELSE received

\* C5: at every point the data rows of the output file are exactly the
\* lines of class "data" among the lines processed so far, in the order
\* they were read (after an interrupt, the line in flight may or may not
\* have been written); informational lines are reported, once each, and
\* never persisted.
RowsAreValidSubsequence ==
    /\ pc # "interrupted" => DataRows(FileText) = ValidTexts(Processed)
    /\ pc = "interrupted" =>
           \/ DataRows(FileText) = ValidTexts(received)
           \/ /\ received # <<>>
              /\ DataRows(FileText) = ValidTexts(Front(received))
    /\ pc \notin InFlightPcs \cup {"interrupted"} =>
           Count(stdout, "INFO") = NumOfClass(received, "info")

\* the same data line has been accepted twice and both rows are on disk
DuplicateRowsKept ==
    /\ pc = "while"
    /\ Len(received) = 2
    /\ Classify(received[1]) = "data"
    /\ received[2] = received[1]
    /\ Len(DataRows(f_disk)) = 2

(* ---- C10 ---- *)
\* C10: when a device read (the readiness check or readline) starts, every
\* accepted line is on disk, complete with its terminator: the unflushed
\* buffer holds at most the header, and the flushed data rows are the
\* line_count accepted lines.
PersistedBeforeRead ==
    pc \in {"in_waiting", "readline"} =>
        /\ f_buf \in {<<>>, HEADER \o <<NL>>}
        /\ f_disk = <<>> \/ Last(f_disk) = NL
        /\ line_count > 0 =>
               /\ f_buf = <<>>
               /\ DataRows(f_disk) = ValidTexts(received)
               /\ Len(DataRows(f_disk)) = line_count

\* a read starts after a line was accepted
ReadAfterAccept ==
    /\ pc = "readline"
    /\ line_count >= 1
    /\ device # <<>>

(* ---- C2 ---- *)
\* a line terminator: '\n', with the '\r' before it if there is one
WithoutTerminator(t) ==
    IF t # <<>> /\ Last(t) = NL
    THEN LET u == Front(t)
         IN  IF u # <<>> /\ Last(u) = "\r" THEN Front(u) ELSE u
    ELSE t

\* the case of C2: the decoded text starts with a decimal digit and holds
\* no noise substring
DigitLedClean(raw) ==
    /\ ~(\E i \in 1..Len(raw) : raw[i] \in InvalidBytes)
    /\ LET d == Decode(raw)
       IN  d # <<>> /\ d[1] \in Digits /\ ~IsNoise(d)

\* w is t without a whitespace-only prefix and suffix, and w itself neither
\* starts nor ends with whitespace
IsTrimOf(w, t) ==
    /\ w = <<>> \/ (w[1] \notin Whitespace /\ Last(w) \notin Whitespace)
    /\ \E i \in 0..Len(t) :
          /\ i + Len(w) <= Len(t)
          /\ SubSeq(t, i + 1, i + Len(w)) = w
          /\ \A k \in 1..Len(t) :
                 (k <= i \/ k > i + Len(w)) => t[k] \in Whitespace

\* the processing of the line read last has finished
LastLineDone ==
    /\ received # <<>>
    /\ pc \notin InFlightPcs \cup {"interrupted"}

\* C2 as stated: a digit-led, noise-free line is appended exactly as it was
\* received, only its line terminator removed.
AppendedVerbatim ==
    (LastLineDone /\ DigitLedClean(Last(received))) =>
        LET rows == DataRows(FileText)
        IN  /\ rows # <<>>
            /\ Last(rows) = WithoutTerminator(Decode(Last(received)))

\* C2 amended: a digit-led, noise-free line is appended with its leading and
\* trailing whitespace removed (the line terminator is part of it) and its
\* other characters unchanged, one row for each such line.
AppendedStripped ==
    (LastLineDone /\ DigitLedClean(Last(received))) =>
        LET rows == DataRows(FileText)
        IN  /\ rows # <<>>
            /\ IsTrimOf(Last(rows), Decode(Last(received)))
            /\ Len(rows) >=
                   Cardinality({i \in 1..Len(received) :
                                    DigitLedClean(received[i])})

\* a data line with whitespace inside and before its terminator was accepted
PaddedLineAccepted ==
    /\ pc = "while"
    /\ received # <<>>
    /\ Last(received) = RawPadded
    /\ Last(DataRows(f_disk)) = <<"1", "2", ",", " ", "1">>

(* ---- C4 ---- *)
\* C4: a session interrupted by a KeyboardInterrupt after the device was
\* opened still closes the device and reports its partial result.
InterruptClosesAndReports ==
    pc = "interrupted" => (ser = "closed" /\ success # "none")

(* ---- C6 ---- *)
HasInvalidByte(raw) == \E i \in 1..Len(raw) : raw[i] \in InvalidBytes

\* C6: reading a line that is not valid UTF-8 changes neither the file nor
\* the counter and takes the loop to its next iteration, and whenever no
\* line is in flight the counter is the number of valid data lines read,
\* whether they came before or after an undecodable one.
DecodeFailureSkipsOnlyLine ==
    /\ [][ (/\ pc = "readline"
            /\ received' # received
            /\ HasInvalidByte(Head(device)))
           => (/\ pc' = "while"
               /\ f_state' = f_state
               /\ f_buf' = f_buf
               /\ f_disk' = f_disk
               /\ line_count' = line_count
               /\ stdout' = stdout
               /\ ser' = ser
               /\ success' = success) ]_vars
    /\ []( (pc \in {"while", "in_waiting", "readline"}) =>
              /\ line_count = NumOfClass(received, "data")
              /\ Len(DataRows(FileText)) = line_count )

\* a valid data line was accepted after an undecodable one
AcceptedAfterCorrupt ==
    /\ pc = "while"
    /\ Len(received) = 2
    /\ HasInvalidByte(received[1])
    /\ Classify(received[2]) = "data"
    /\ line_count = 1
    /\ DataRows(f_disk) = <<TextOf(received[2])>>

(* ---- C7 ---- *)
\* C7: with duration = 0 and a device that opens, the session returns False
\* with no line read, and the output file is the header row alone.
ZeroDurationHeaderOnly ==
    (Returned /\ ser # "none" /\ duration = 0) =>
        /\ f_disk = HEADER \o <<NL>>
        /\ f_buf = <<>>
        /\ f_state = "closed"
        /\ received = <<>>
        /\ line_count = 0
        /\ success = "False"

\* a zero-duration session has returned while the device had lines pending
ZeroDurationReturned ==
    /\ Returned
    /\ ser = "closed"
    /\ duration = 0
    /\ Len(device) >= 2

(* ---- C8 ---- *)
\* C8: once the four lines of the scenario have been read and the session
\* has returned, the output file is the header and the one data row, two
\* lines were reported as skipped or informational and one was accepted.
ScenarioOutcome ==
    (Returned /\ received = Scenario) =>
        /\ FileLines(f_disk) = <<HEADER, ScnRow>>
        /\ f_buf = <<>>
        /\ Count(stdout, "SKIP") + Count(stdout, "INFO") = 2
        /\ Count(stdout, "DATA") = 1
        /\ line_count = 1
        /\ ("COMPLETE" \in Range(stdout)) => success = "True"

\* the scenario ran to completion
ScenarioCompleted ==
    /\ pc = "exit"
    /\ received = Scenario
    /\ success = "True"

(* ---- C9 ---- *)
\* C9: plotting and the copy to data.csv happen only after a session that
\* accepted a line and returned True; when main ends after a session with
\* zero accepted lines, "No data logged." was printed and neither
\* generate_plots nor the copy ran.
NoDataSkipsPlotting ==
    /\ (plotted \/ copied \/ pc \in {"generate_plots", "copy"}) =>
           (line_count > 0 /\ success = "True")
    /\ (pc = "exit" /\ line_count = 0) =>
           /\ "NODATA" \in Range(stdout)
           /\ ~plotted
           /\ ~copied

\* main has ended after a session that read lines and accepted none
EmptySessionEnded ==
    /\ pc = "exit"
    /\ ser = "closed"
    /\ received # <<>>
    /\ line_count = 0

(* ---- C11 ---- *)
\* the raw lines whose text holds a warmup marker
NumWarmup(raws) ==
    Cardinality({i \in 1..Len(raws) :
                    Decodable(raws[i]) /\ IsWarmup(TextOf(raws[i]))})

\* C11 as stated: every noise line, the duplicate header included, is
\* discarded and a skip report is printed for it.
EveryNoiseLineReported ==
    pc \notin InFlightPcs \cup {"interrupted"} =>
        /\ Count(stdout, "SKIP") = NumOfClass(received, "noise")
        /\ Len(DataRows(FileText)) = NumOfClass(received, "data")

\* C11 amended: every noise line is discarded; a skip report is printed for
\* each line that holds a warmup marker, and a line that holds only the
\* duplicate-header marker is dropped without any report.
WarmupReportedHeaderSilent ==
    pc \notin InFlightPcs \cup {"interrupted"} =>
        /\ Count(stdout, "SKIP") = NumWarmup(received)
        /\ Count(stdout, "INFO") = NumOfClass(received, "info")
        /\ Count(stdout, "DATA") = NumOfClass(received, "data")
        /\ Len(DataRows(FileText)) = NumOfClass(received, "data")

\* a warmup line and a duplicate-header line have both been processed
BothNoiseKindsProcessed ==
    /\ pc = "while"
    /\ received = <<RawDigitNoise, RawDigitHeader>>
    /\ stdout = <<"SKIP">>

(* ---- C13 ---- *)
\* C13: whenever log_serial_data has returned, it returned True exactly
\* when the output file holds at least one data row.
ReturnMatchesRows ==
    Returned => (success = "True" <=> Len(DataRows(f_disk)) >= 1)

(* ---- C12 ---- *)
\* C12: the capture loop eventually exits, also when the device sends
\* nothing more; the loop condition is evaluated once per iteration, before
\* the iteration's readiness check and read, and an evaluation that finds
\* elapsed >= duration starts no read; the exit is late by less than one
\* read timeout.
LoopExitsWithinTimeout ==
    /\ <>(pc \notin WithPcs \cup {"open", "start"})
    /\ [][ pc' = "in_waiting" => (pc = "while" /\ now < duration) ]_vars
    /\ [][ (pc' = "readline" /\ pc # "readline") => pc = "in_waiting" ]_vars
    /\ [][ (pc = "while" /\ now >= duration)
             => pc' \in {"complete", "interrupted"} ]_vars
    /\ [](now < duration + READ_TIMEOUT)

\* the loop ran out of time after the device had gone quiet
ExitedAfterDeviceWentQuiet ==
    /\ pc = "complete"
    /\ duration >= 1
    /\ now >= duration
    /\ received # <<>>
    /\ device = <<>>
====
